---------------------------- MODULE Spec2Model ----------------------------
(***************************************************************************)
(* Repair-shop data-access layer (lib/firebase.ts): the client-side        *)
(* validators, the four entity repositories (add / update) and the         *)
(* document store they write to.                                           *)
(*                                                                         *)
(* Representation.                                                         *)
(*  - A JavaScript object is a function from its own property names to     *)
(*    values; a property that is undefined is not in the DOMAIN.  Object   *)
(*    spread {...a, ...b} is Spread(a, b).                                 *)
(*  - A string is a sequence of chunks.  A chunk is one whitespace         *)
(*    character " ", the character "@", the character ".", or a non-empty  *)
(*    run of other characters ("ann", "in-progress").  The empty string    *)
(*    is << >>.                                                            *)
(*  - A timestamp is [by |-> "server" | "caller", t |-> Nat].              *)
(***************************************************************************)
EXTENDS Integers, Sequences, FiniteSets, TLC

VARIABLES
    db,        \* Firestore: collection name -> (document id -> document data)
    nextDoc,   \* number of document ids the store has generated so far
    clock,     \* the store's clock, read by serverTimestamp()
    last,      \* the most recent repository call: its input and how it ended
    probe,     \* the most recent validator call: its input and its result
    auth,      \* the credential provider's session and the getCurrentUser calls
    hook,      \* one mounted data-fetch hook: its parameter, state and fetches
    acl,       \* the security rules' view: role records, the requests decided
    upd,       \* updateCustomer calls in progress, between their read and write
    seed       \* a run of seedDatabase: its position and the ids it collected

vars == <<db, nextDoc, clock, last, probe, auth, hook, acl, upd, seed>>

\* what the repository calls leave alone
beyondRepo == <<probe, auth, hook, acl, upd, seed>>

\* what the other parts leave alone in the store and the call record
repoVars == <<db, nextDoc, clock, last>>

-----------------------------------------------------------------------------
(* Bounds of the model *)

\* documents the store creates in one run
MaxDocs == 2
\* store writes (each advances the store clock) in one run
MaxClock == 2
\* longest e-mail string, in chunks, handed to the validators
MaxEmailLen == 5

-----------------------------------------------------------------------------
(* JavaScript objects and strings *)

\* {...a, ...b}: the properties of b win
Spread(a, b) == b @@ a

\* obj[key] as an optional value: << >> when undefined, <<v>> otherwise
Prop(obj, key) == IF key \in DOMAIN obj THEN <<obj[key]>> ELSE << >>

Obj0 == << >>

IsWs(ch) == ch = " "

RECURSIVE TrimStart(_)
TrimStart(s) ==
    IF s # << >> /\ IsWs(Head(s)) THEN TrimStart(Tail(s)) ELSE s

RECURSIVE TrimEnd(_)
TrimEnd(s) ==
    IF s # << >> /\ IsWs(s[Len(s)]) THEN TrimEnd(SubSeq(s, 1, Len(s) - 1)) ELSE s

\* String.prototype.trim
Trim(s) == TrimEnd(TrimStart(s))

-----------------------------------------------------------------------------
(* Validation functions, firebase.ts *)

\* one or more characters of the class [^\s@]
NoWsAtPlus(s) == Len(s) > 0 /\ \A i \in 1..Len(s) : ~IsWs(s[i]) /\ s[i] # "@"

\* /^[^\s@]+@[^\s@]+\.[^\s@]+$/.test(email)
validateEmail(email) ==
    \E i \in 1..Len(email) : \E j \in (i + 1)..Len(email) :
        /\ email[i] = "@"
        /\ email[j] = "."
        /\ NoWsAtPlus(SubSeq(email, 1, i - 1))
        /\ NoWsAtPlus(SubSeq(email, i + 1, j - 1))
        /\ NoWsAtPlus(SubSeq(email, j + 1, Len(email)))

\* typeof value === 'number' && value >= 0   (value as Prop gives it)
validatePositiveNumber(value) == value # << >> /\ value[1] >= 0

validateRequiredNoTrim(value) ==
    IF value = << >> THEN FALSE ELSE Len(value[1]) > 0

\* undefined -> false; a string -> value.trim().length > 0
validateRequired(value) ==
    IF value = << >> THEN FALSE ELSE Len(Trim(value[1])) > 0

\* !Array.isArray(x) || x.length === 0
NoItems(value) == value = << >> \/ Len(value[1]) = 0

\* `email && !validateEmail(email)`: undefined and "" are falsy
BadEmail(value) == value # << >> /\ value[1] # << >> /\ ~validateEmail(value[1])

\* errors.push(msg) when the rule is violated
Push(violated, msg) == IF violated THEN <<msg>> ELSE << >>

Result(errors) == [valid |-> Len(errors) = 0, errors |-> errors]

validateCustomer(customer) ==
    Result(Push(~validateRequired(Prop(customer, "name")), "Name is required")
        \o Push(~validateRequired(Prop(customer, "phone")), "Phone is required")
        \o Push(BadEmail(Prop(customer, "email")), "Email format is invalid"))

validateRepair(repair) ==
    Result(Push(~validateRequired(Prop(repair, "customer_id")), "Customer ID is required")
        \o Push(~validateRequired(Prop(repair, "device_type")), "Device type is required")
        \o Push(~validateRequired(Prop(repair, "brand")), "Brand is required")
        \o Push(~validateRequired(Prop(repair, "model")), "Model is required")
        \o Push(~validateRequired(Prop(repair, "status")), "Status is required")
        \o Push(~validatePositiveNumber(Prop(repair, "cost")), "Cost must be a positive number")
        \o Push(NoItems(Prop(repair, "tasks")), "At least one task is required"))

validateProduct(product) ==
    Result(Push(~validateRequired(Prop(product, "name")), "Name is required")
        \o Push(~validateRequired(Prop(product, "category")), "Category is required")
        \o Push(~validateRequired(Prop(product, "supplier")), "Supplier is required")
        \o Push(~validatePositiveNumber(Prop(product, "quantity")), "Quantity must be a positive number")
        \o Push(~validatePositiveNumber(Prop(product, "price")), "Price must be a positive number"))

\* a validator that returns at its first violated rule
validateTechnicianFirstOnly(technician) ==
    LET all == Push(~validateRequired(Prop(technician, "name")), "Name is required")
            \o Push(~validateRequired(Prop(technician, "phone")), "Phone is required")
            \o Push(NoItems(Prop(technician, "specialization")), "At least one specialization is required")
            \o Push(BadEmail(Prop(technician, "email")), "Email format is invalid")
            \o Push(Prop(technician, "availability") = << >>, "Availability must be a boolean value")
    IN  Result(IF all = << >> THEN << >> ELSE <<Head(all)>>)

validateTechnician(technician) ==
    Result(Push(~validateRequired(Prop(technician, "name")), "Name is required")
        \o Push(~validateRequired(Prop(technician, "phone")), "Phone is required")
        \o Push(NoItems(Prop(technician, "specialization")), "At least one specialization is required")
        \o Push(BadEmail(Prop(technician, "email")), "Email format is invalid")
        \o Push(Prop(technician, "availability") = << >>, "Availability must be a boolean value"))

-----------------------------------------------------------------------------
(* Candidate records handed to the validators *)

\* the property `key` left undefined, or set to one of vals
Opt(key, vals) == {Obj0} \cup {key :> v : v \in vals}

Alphabet == {"a", " ", "@", "."}

EmailStrings == UNION {[1..n -> Alphabet] : n \in 0..MaxEmailLen}

CustomerCandidates ==
    {n @@ p @@ e : n \in Opt("name", {<< >>, <<" ">>, <<" ", "ann", " ">>}),
                   p \in Opt("phone", {<< >>, <<" ", " ">>, <<"555">>}),
                   e \in Opt("email", EmailStrings)}

\* the same with and without an address (validateCustomer never reads it)
CustomerRecords ==
    {c @@ a : c \in CustomerCandidates, a \in Opt("address", {<<"x">>})}

StatusStrings ==
    {<< >>, <<" ">>, <<"pending">>, <<"in-progress">>, <<"completed">>, <<"done">>}

RepairCandidates ==
    {c @@ d @@ b @@ m @@ s @@ k @@ t :
        c \in Opt("customer_id", {<< >>, <<"doc1">>}),
        d \in Opt("device_type", {<<" ">>, <<"phone">>}),
        b \in {"brand" :> v : v \in {<< >>, <<"acme">>}},
        m \in {"model" :> v : v \in {<<" ">>, <<"m1">>}},
        s \in Opt("status", StatusStrings),
        k \in Opt("cost", {-5, 0, 150}),
        t \in Opt("tasks", {<< >>, << <<"clean">> >>})}

ProductCandidates ==
    {n @@ c @@ s @@ q @@ p :
        n \in Opt("name", {<< >>, <<"kit">>}),
        c \in {"category" :> v : v \in {<<" ">>, <<"parts">>}},
        s \in Opt("supplier", {<<"acme">>}),
        q \in Opt("quantity", {-1, 0, 25}),
        p \in Opt("price", {-1, 0, 50})}

TechnicianCandidates ==
    {n @@ p @@ s @@ e @@ a :
        n \in Opt("name", {<< >>, <<"mike">>}),
        p \in Opt("phone", {<<" ">>, <<"555">>}),
        s \in Opt("specialization", {<< >>, << <<"laptops">> >>}),
        e \in Opt("email", {<< >>, <<"m", "@", "x", ".", "y">>, <<"m", "@", "x">>}),
        a \in Opt("availability", BOOLEAN)}

-----------------------------------------------------------------------------
(* State *)

Collections == {"customers", "repairs", "products", "technicians"}

\* how a repository call ended, as its caller sees it:
\*   result  "thrown" (errors = the rejected rules), "null", "id" (ret = the
\*           new document id), "true", "false", "list" (ret = the documents
\*           read) or "user" (ret = the principal)
\*   read    the getDoc request: "none" (not issued), "hit", "miss", "failed"
\*   write   the addDoc / updateDoc request: "none", "ok", "failed"
Call(op, coll, id, arg, result, ret, errors, read, write) ==
    [op |-> op, coll |-> coll, id |-> id, arg |-> arg, result |-> result,
     ret |-> ret, errors |-> errors, read |-> read, write |-> write]

NoCall == Call("none", "none", << >>, Obj0, "none", << >>, << >>, "none", "none")

NoProbe == [kind |-> "none", rec |-> Obj0, done |-> TRUE, res |-> Result(<< >>)]

\* a principal as the provider reports it: << >> is null, <<uid>> a user
NoUser == << >>

\* nobody registered, nobody signed in, no getCurrentUser call made
AuthIdle == [session |-> NoUser, accounts |-> {}, calls |-> << >>]

\* no hook mounted
HookIdle == [kind |-> "none"]

\* no request put to the security rules
AclIdle == [actor |-> NoUser]

\* no updateCustomer call in progress
UpdIdle == << >>

\* seedDatabase not called
SeedIdle == [pc |-> "idle"]

\* the parts that a specification does not exercise stay as they start
Idle(parts) ==
    /\ ("probe" \in parts => probe = NoProbe)
    /\ ("auth" \in parts => auth = AuthIdle)
    /\ ("hook" \in parts => hook = HookIdle)
    /\ ("acl" \in parts => acl = AclIdle)
    /\ ("upd" \in parts => upd = UpdIdle)
    /\ ("seed" \in parts => seed = SeedIdle)

EmptyStore ==
    /\ db = [c \in Collections |-> Obj0]
    /\ nextDoc = 0
    /\ clock = 0
    /\ last = NoCall

Init ==
    /\ db = [c \in Collections |-> Obj0]
    /\ nextDoc = 0
    /\ clock = 0
    /\ last = NoCall
    /\ probe = NoProbe
    /\ Idle({"auth", "hook", "acl", "upd", "seed"})

-----------------------------------------------------------------------------
(* The document store (firebase/firestore), as the repositories use it *)

\* serverTimestamp(): a sentinel the store replaces by its own time on write
ServerTimestamp == [by |-> "sentinel", t |-> 0]

\* a Timestamp value built by the caller
CallerTimestamp == [by |-> "caller", t |-> 0]

TimestampKeys == {"createdAt", "updatedAt", "created_date"}

\* the store's resolution of the sentinels in written data
Resolve(data, now) ==
    [k \in DOMAIN data |->
        IF k \in TimestampKeys /\ data[k].by = "sentinel"
        THEN [by |-> "server", t |-> now]
        ELSE data[k]]

\* the n-th auto-generated document id
DocId(n) == <<"doc" \o ToString(n)>>

\* addDoc(collection, data), accepted: a new document under a fresh id
addDoc(coll, data) ==
    /\ nextDoc < MaxDocs
    /\ clock < MaxClock
    /\ db' = [db EXCEPT ![coll] = (DocId(nextDoc + 1) :> Resolve(data, clock + 1)) @@ @]
    /\ nextDoc' = nextDoc + 1
    /\ clock' = clock + 1

\* updateDoc(ref, data), accepted: the given fields are written over the
\* existing document, the others are kept
updateDoc(coll, id, data) ==
    /\ id \in DOMAIN db[coll]
    /\ clock < MaxClock
    /\ db' = [db EXCEPT ![coll][id] = Spread(@, Resolve(data, clock + 1))]
    /\ clock' = clock + 1
    /\ UNCHANGED nextDoc

\* a request the store does not carry out (it rejects, or is unreachable)
StoreUntouched == UNCHANGED <<db, nextDoc, clock>>

-----------------------------------------------------------------------------
(* Inputs of the repository calls *)

CustomerPayloads ==
    { [name |-> <<"ann">>, phone |-> <<"555">>, email |-> <<"a", "@", "b", ".", "c">>,
       address |-> <<"x">>, createdAt |-> CallerTimestamp, updatedAt |-> CallerTimestamp],
      [name |-> <<"bob">>, phone |-> <<"556">>, email |-> << >>, address |-> << >>],
      [name |-> <<" ">>, phone |-> <<"555">>, email |-> <<"a", "@", "b">>, address |-> <<"x">>],
      [name |-> <<"ann">>, phone |-> << >>, email |-> << >>, address |-> <<"x">>] }

CustomerPartials ==
    { [name |-> <<" ">>],
      [phone |-> <<"777">>],
      [email |-> <<"a", "@", "b">>],
      [createdAt |-> CallerTimestamp, updatedAt |-> CallerTimestamp] }

RepairPayloads ==
    { [customer_id |-> <<"doc1">>, device_type |-> <<"phone">>, brand |-> <<"acme">>,
       model |-> <<"m1">>, issue_description |-> <<"cracked">>, status |-> <<"pending">>,
       cost |-> 0, tasks |-> << <<"screen">> >>],
      [customer_id |-> <<"doc1">>, device_type |-> <<"phone">>, brand |-> <<"acme">>,
       model |-> <<"m1">>, issue_description |-> <<"cracked">>, status |-> <<"pending">>,
       cost |-> -5, tasks |-> << >>] }

RepairPartials ==
    { [cost |-> -5],
      [brand |-> <<" ">>],
      [status |-> <<"completed">>, cost |-> 150],
      [created_date |-> CallerTimestamp] }

ProductPayloads ==
    { [name |-> <<"kit">>, category |-> <<"parts">>, quantity |-> 25, price |-> 50,
       supplier |-> <<"acme">>],
      [name |-> <<"kit">>, category |-> << >>, quantity |-> 25, price |-> -1,
       supplier |-> <<"acme">>] }

ProductPartials ==
    { [price |-> -1],
      [quantity |-> 0],
      [category |-> << >>] }

TechnicianPayloads ==
    { [name |-> <<"mike">>, specialization |-> << <<"laptops">> >>, availability |-> TRUE,
       email |-> <<"m", "@", "x", ".", "y">>, phone |-> <<"555">>],
      [name |-> <<"mike">>, specialization |-> << >>, availability |-> TRUE,
       email |-> <<"m", "@", "x", ".", "y">>, phone |-> <<"555">>] }

TechnicianPartials ==
    { [specialization |-> << >>],
      [availability |-> FALSE] }

\* date.toLocaleString('en-US', {month: 'short'}).toLowerCase()
Months == {"jan", "dec"}

\* Math.floor(1000 + Math.random() * 9000)
RandomNums == {1000, 9999}

\* Math.random().toString(36).substring(2, 10).toUpperCase()
RandomIds8 == {"K3X9Q2ZA"}

\* Math.random().toString(36).substring(2, 8).toUpperCase()
RandomIds6 == {"K3X9Q2"}

\* the ids update is called with: ids the store has or may generate
UpdateIds == {DocId(n) : n \in 1..MaxDocs}

-----------------------------------------------------------------------------
(* Customers *)

addCustomer ==
    /\ \E customer \in CustomerPayloads :
           LET validation == validateCustomer(customer)
               customerData == Spread(customer, [createdAt |-> ServerTimestamp,
                                                 updatedAt |-> ServerTimestamp])
           IN  \/ /\ ~validation.valid
                  /\ last' = Call("add", "customers", << >>, customer, "thrown", << >>,
                                  validation.errors, "none", "none")
                  /\ StoreUntouched
               \/ /\ validation.valid
                  /\ addDoc("customers", customerData)
                  /\ last' = Call("add", "customers", << >>, customer, "id",
                                  DocId(nextDoc + 1), << >>, "none", "ok")
               \/ /\ validation.valid
                  /\ StoreUntouched
                  /\ last' = Call("add", "customers", << >>, customer, "null", << >>,
                                  << >>, "none", "failed")
    /\ UNCHANGED beyondRepo

updateCustomer ==
    /\ \E customerId \in UpdateIds : \E customer \in CustomerPartials :
           LET Returned(result, read, write) ==
                   Call("update", "customers", customerId, customer, result, << >>,
                        << >>, read, write)
           IN  \/ /\ last' = Returned("false", "failed", "none")
                  /\ StoreUntouched
               \/ /\ customerId \notin DOMAIN db["customers"]
                  /\ last' = Returned("false", "miss", "none")
                  /\ StoreUntouched
               \/ /\ customerId \in DOMAIN db["customers"]
                  /\ LET currentData == db["customers"][customerId]
                         updatedData == Spread(Spread(currentData, customer),
                                               [updatedAt |-> ServerTimestamp])
                         validation == validateCustomer(updatedData)
                     IN  \/ /\ ~validation.valid
                            /\ last' = Returned("false", "hit", "none")
                            /\ StoreUntouched
                         \/ /\ validation.valid
                            /\ updateDoc("customers", customerId, updatedData)
                            /\ last' = Returned("true", "hit", "ok")
                         \/ /\ validation.valid
                            /\ last' = Returned("false", "hit", "failed")
                            /\ StoreUntouched
    /\ UNCHANGED beyondRepo

-----------------------------------------------------------------------------
(* Repairs *)

\* addRepair with the write issued before the validation result is looked at
addRepairWriteFirst ==
    /\ \E repair \in RepairPayloads : \E month \in Months : \E randomNum \in RandomNums :
           LET repair_id == <<month \o ToString(randomNum)>>
               repairData == Spread(repair, [repair_id |-> repair_id,
                                             created_date |-> ServerTimestamp,
                                             updatedAt |-> ServerTimestamp])
               validation == validateRepair(repairData)
           IN  /\ addDoc("repairs", repairData)
               /\ last' = Call("add", "repairs", << >>, repair,
                               IF validation.valid THEN "id" ELSE "null",
                               IF validation.valid THEN DocId(nextDoc + 1) ELSE << >>,
                               << >>, "none", "ok")
    /\ UNCHANGED beyondRepo

addRepair ==
    /\ \E repair \in RepairPayloads : \E month \in Months : \E randomNum \in RandomNums :
           LET repair_id == <<month \o ToString(randomNum)>>
               repairData == Spread(repair, [repair_id |-> repair_id,
                                             created_date |-> ServerTimestamp,
                                             updatedAt |-> ServerTimestamp])
               validation == validateRepair(repairData)
           IN  \/ /\ ~validation.valid
                  /\ last' = Call("add", "repairs", << >>, repair, "null", << >>,
                                  << >>, "none", "none")
                  /\ StoreUntouched
               \/ /\ validation.valid
                  /\ addDoc("repairs", repairData)
                  /\ last' = Call("add", "repairs", << >>, repair, "id",
                                  DocId(nextDoc + 1), << >>, "none", "ok")
               \/ /\ validation.valid
                  /\ StoreUntouched
                  /\ last' = Call("add", "repairs", << >>, repair, "null", << >>,
                                  << >>, "none", "failed")
    /\ UNCHANGED beyondRepo

updateRepair ==
    /\ \E repairId \in UpdateIds : \E repair \in RepairPartials :
           LET Returned(result, read, write) ==
                   Call("update", "repairs", repairId, repair, result, << >>,
                        << >>, read, write)
               updatedData == Spread(repair, [updatedAt |-> ServerTimestamp])
           IN  \/ /\ last' = Returned("false", "failed", "none")
                  /\ StoreUntouched
               \/ /\ repairId \notin DOMAIN db["repairs"]
                  /\ last' = Returned("false", "miss", "none")
                  /\ StoreUntouched
               \/ /\ repairId \in DOMAIN db["repairs"]
                  /\ updateDoc("repairs", repairId, updatedData)
                  /\ last' = Returned("true", "hit", "ok")
               \/ /\ repairId \in DOMAIN db["repairs"]
                  /\ last' = Returned("false", "hit", "failed")
                  /\ StoreUntouched
    /\ UNCHANGED beyondRepo

-----------------------------------------------------------------------------
(* Products *)

\* addProduct without the creation stamp
addProductNoCreatedAt ==
    /\ \E product \in ProductPayloads : \E randomId \in RandomIds8 :
           LET product_id == <<"PROD-" \o randomId>>
               productData == Spread(product, [product_id |-> product_id,
                                               updatedAt |-> ServerTimestamp])
               validation == validateProduct(productData)
           IN  \/ /\ ~validation.valid
                  /\ last' = Call("add", "products", << >>, product, "null", << >>,
                                  << >>, "none", "none")
                  /\ StoreUntouched
               \/ /\ validation.valid
                  /\ addDoc("products", productData)
                  /\ last' = Call("add", "products", << >>, product, "id",
                                  DocId(nextDoc + 1), << >>, "none", "ok")
    /\ UNCHANGED beyondRepo

addProduct ==
    /\ \E product \in ProductPayloads : \E randomId \in RandomIds8 :
           LET product_id == <<"PROD-" \o randomId>>
               productData == Spread(product, [product_id |-> product_id,
                                               createdAt |-> ServerTimestamp,
                                               updatedAt |-> ServerTimestamp])
               validation == validateProduct(productData)
           IN  \/ /\ ~validation.valid
                  /\ last' = Call("add", "products", << >>, product, "null", << >>,
                                  << >>, "none", "none")
                  /\ StoreUntouched
               \/ /\ validation.valid
                  /\ addDoc("products", productData)
                  /\ last' = Call("add", "products", << >>, product, "id",
                                  DocId(nextDoc + 1), << >>, "none", "ok")
               \/ /\ validation.valid
                  /\ StoreUntouched
                  /\ last' = Call("add", "products", << >>, product, "null", << >>,
                                  << >>, "none", "failed")
    /\ UNCHANGED beyondRepo

updateProduct ==
    /\ \E productId \in UpdateIds : \E product \in ProductPartials :
           LET Returned(result, read, write) ==
                   Call("update", "products", productId, product, result, << >>,
                        << >>, read, write)
               updatedData == Spread(product, [updatedAt |-> ServerTimestamp])
           IN  \/ /\ last' = Returned("false", "failed", "none")
                  /\ StoreUntouched
               \/ /\ productId \notin DOMAIN db["products"]
                  /\ last' = Returned("false", "miss", "none")
                  /\ StoreUntouched
               \/ /\ productId \in DOMAIN db["products"]
                  /\ updateDoc("products", productId, updatedData)
                  /\ last' = Returned("true", "hit", "ok")
               \/ /\ productId \in DOMAIN db["products"]
                  /\ last' = Returned("false", "hit", "failed")
                  /\ StoreUntouched
    /\ UNCHANGED beyondRepo

-----------------------------------------------------------------------------
(* Technicians *)

addTechnician ==
    /\ \E technician \in TechnicianPayloads : \E randomId \in RandomIds6 :
           LET tech_id == <<"TECH-" \o randomId>>
               technicianData == Spread(technician, [tech_id |-> tech_id,
                                                     createdAt |-> ServerTimestamp,
                                                     updatedAt |-> ServerTimestamp])
               validation == validateTechnician(technicianData)
           IN  \/ /\ ~validation.valid
                  /\ last' = Call("add", "technicians", << >>, technician, "null", << >>,
                                  << >>, "none", "none")
                  /\ StoreUntouched
               \/ /\ validation.valid
                  /\ addDoc("technicians", technicianData)
                  /\ last' = Call("add", "technicians", << >>, technician, "id",
                                  DocId(nextDoc + 1), << >>, "none", "ok")
               \/ /\ validation.valid
                  /\ StoreUntouched
                  /\ last' = Call("add", "technicians", << >>, technician, "null", << >>,
                                  << >>, "none", "failed")
    /\ UNCHANGED beyondRepo

\* updateTechnician without the exists() check, writing with set-and-merge
updateTechnicianNoExistsCheck ==
    /\ \E technicianId \in UpdateIds : \E technician \in TechnicianPartials :
           LET updatedData == Spread(technician, [updatedAt |-> ServerTimestamp])
               current == IF technicianId \in DOMAIN db["technicians"]
                          THEN db["technicians"][technicianId] ELSE Obj0
           IN  /\ clock < MaxClock
               /\ db' = [db EXCEPT !["technicians"] =
                            (technicianId :> Spread(current, Resolve(updatedData, clock + 1))) @@ @]
               /\ clock' = clock + 1
               /\ UNCHANGED nextDoc
               /\ last' = Call("update", "technicians", technicianId, technician, "true",
                               << >>, << >>, "hit", "ok")
    /\ UNCHANGED beyondRepo

updateTechnician ==
    /\ \E technicianId \in UpdateIds : \E technician \in TechnicianPartials :
           LET Returned(result, read, write) ==
                   Call("update", "technicians", technicianId, technician, result, << >>,
                        << >>, read, write)
               updatedData == Spread(technician, [updatedAt |-> ServerTimestamp])
           IN  \/ /\ last' = Returned("false", "failed", "none")
                  /\ StoreUntouched
               \/ /\ technicianId \notin DOMAIN db["technicians"]
                  /\ last' = Returned("false", "miss", "none")
                  /\ StoreUntouched
               \/ /\ technicianId \in DOMAIN db["technicians"]
                  /\ updateDoc("technicians", technicianId, updatedData)
                  /\ last' = Returned("true", "hit", "ok")
               \/ /\ technicianId \in DOMAIN db["technicians"]
                  /\ last' = Returned("false", "hit", "failed")
                  /\ StoreUntouched
    /\ UNCHANGED beyondRepo

-----------------------------------------------------------------------------
(* Reads: getDocs on a collection or on an equality query *)

\* the snapshot documents of a collection, in document-id order
RECURSIVE DocsUpTo(_, _)
DocsUpTo(coll, n) ==
    IF n = 0 THEN << >>
    ELSE DocsUpTo(coll, n - 1)
            \o (IF DocId(n) \in DOMAIN db[coll]
                THEN << [id |-> DocId(n), data |-> db[coll][DocId(n)]] >>
                ELSE << >>)

\* getDocs(collection)
getDocs(coll) == DocsUpTo(coll, MaxDocs)

\* getDocs(query(collection, where(field, '==', value)))
getDocsWhere(coll, field, value) ==
    SelectSeq(getDocs(coll), LAMBDA d : field \in DOMAIN d.data /\ d.data[field] = value)

\* querySnapshot.docs.map(doc => ({ id: doc.id, ...doc.data() }))
MapDocs(docs) == [i \in 1..Len(docs) |-> Spread([id |-> docs[i].id], docs[i].data)]

\* what a read returns: the mapped documents, or [] when getDocs throws
ReadResult(docs, storeOk) == IF storeOk THEN MapDocs(docs) ELSE << >>

Listed(coll, docs, storeOk) ==
    /\ last' = Call("list", coll, << >>, Obj0, "list", ReadResult(docs, storeOk),
                    << >>, IF storeOk THEN "hit" ELSE "failed", "none")
    /\ StoreUntouched
    /\ UNCHANGED beyondRepo

Queried(coll, field, value, docs, storeOk) ==
    /\ last' = Call("query", coll, << >>, [field |-> field, value |-> value], "list",
                    ReadResult(docs, storeOk), << >>,
                    IF storeOk THEN "hit" ELSE "failed", "none")
    /\ StoreUntouched
    /\ UNCHANGED beyondRepo

\* the parameters the query functions are called with ("" is the falsy one)
StatusParams == {<< >>, <<"pending">>, <<"completed">>}

CustomerIdParams == {<< >>, DocId(1)}

CategoryParams == {<< >>, <<"parts">>, <<"tools">>}

getCustomers ==
    \E storeOk \in BOOLEAN : Listed("customers", getDocs("customers"), storeOk)

getRepairs ==
    \E storeOk \in BOOLEAN : Listed("repairs", getDocs("repairs"), storeOk)

getRepairsByStatus ==
    \E status \in StatusParams : \E storeOk \in BOOLEAN :
        Queried("repairs", "status", status,
                getDocsWhere("repairs", "status", status), storeOk)

getRepairsByCustomerId ==
    \E customerId \in CustomerIdParams : \E storeOk \in BOOLEAN :
        Queried("repairs", "customer_id", customerId,
                getDocsWhere("repairs", "customer_id", customerId), storeOk)

getProducts ==
    \E storeOk \in BOOLEAN : Listed("products", getDocs("products"), storeOk)

getProductsByCategory ==
    \E category \in CategoryParams : \E storeOk \in BOOLEAN :
        Queried("products", "category", category,
                getDocsWhere("products", "category", category), storeOk)

getTechnicians ==
    \E storeOk \in BOOLEAN : Listed("technicians", getDocs("technicians"), storeOk)

getAvailableTechnicians ==
    \E storeOk \in BOOLEAN :
        Queried("technicians", "availability", TRUE,
                getDocsWhere("technicians", "availability", TRUE), storeOk)

-----------------------------------------------------------------------------
(* The auth gateway over the credential provider (firebase/auth) *)

\* the e-mail addresses people register and sign in with; a user principal
\* is <<e-mail>>
Principals == {"ann"}

\* the provider changes the session and queues a notification for every
\* session-state listener that is still subscribed
SessionBecomes(user, accounts) ==
    auth' = [session |-> user,
             accounts |-> accounts,
             calls |-> [i \in DOMAIN auth.calls |->
                           IF auth.calls[i].subscribed /\ user # auth.session
                           THEN [auth.calls[i] EXCEPT !.notify = TRUE]
                           ELSE auth.calls[i]]]

AuthCall(op, email, result, ret, write) ==
    Call(op, "auth", << >>, [email |-> email], result, ret, << >>, "none", write)

\* createUserWithEmailAndPassword: refused for a known address, or for any
\* reason of the provider's
registerUser ==
    /\ \E email \in Principals :
           \/ /\ email \notin auth.accounts
              /\ SessionBecomes(<<email>>, auth.accounts \cup {email})
              /\ last' = AuthCall("register", <<email>>, "user", <<email>>, "ok")
           \/ /\ UNCHANGED auth
              /\ last' = AuthCall("register", <<email>>, "null", << >>, "failed")
    /\ StoreUntouched
    /\ UNCHANGED <<probe, hook, acl, upd, seed>>

\* a login that lets the provider's error through to its caller
loginUserRethrows ==
    /\ \E email \in Principals :
           \/ /\ email \in auth.accounts
              /\ SessionBecomes(<<email>>, auth.accounts)
              /\ last' = AuthCall("login", <<email>>, "user", <<email>>, "ok")
           \/ /\ UNCHANGED auth
              /\ last' = AuthCall("login", <<email>>, "thrown", << >>, "failed")
    /\ StoreUntouched
    /\ UNCHANGED <<probe, hook, acl, upd, seed>>

\* signInWithEmailAndPassword
loginUser ==
    /\ \E email \in Principals :
           \/ /\ email \in auth.accounts
              /\ SessionBecomes(<<email>>, auth.accounts)
              /\ last' = AuthCall("login", <<email>>, "user", <<email>>, "ok")
           \/ /\ UNCHANGED auth
              /\ last' = AuthCall("login", <<email>>, "null", << >>, "failed")
    /\ StoreUntouched
    /\ UNCHANGED <<probe, hook, acl, upd, seed>>

\* signOut
logoutUser ==
    /\ \/ /\ SessionBecomes(NoUser, auth.accounts)
          /\ last' = AuthCall("logout", << >>, "true", << >>, "ok")
       \/ /\ UNCHANGED auth
          /\ last' = AuthCall("logout", << >>, "false", << >>, "failed")
    /\ StoreUntouched
    /\ UNCHANGED <<probe, hook, acl, upd, seed>>

\* the number of getCurrentUser calls made in one run
MaxCalls == 2

\* getCurrentUser(): a new promise, and a session-state listener subscribed
\* for it; the provider owes every new listener a first notification
getCurrentUser ==
    /\ Len(auth.calls) < MaxCalls
    /\ auth' = [auth EXCEPT !.calls = Append(@, [subscribed |-> TRUE, notify |-> TRUE,
                                                 delivered |-> << >>,
                                                 settled |-> FALSE, value |-> NoUser])]
    /\ UNCHANGED <<repoVars, probe, hook, acl, upd, seed>>

\* resolve(user) on the promise of a call: only the first one settles it
Resolved(call, user) ==
    IF call.settled THEN call ELSE [call EXCEPT !.settled = TRUE, !.value = user]

\* a listener that resolves without unsubscribing
ListenerKeepsSubscription(call, user) ==
    Resolved([call EXCEPT !.notify = FALSE, !.delivered = Append(@, user)], user)

\* the listener (user) => { unsubscribe(); resolve(user); }
Listener(call, user) ==
    Resolved([call EXCEPT !.subscribed = FALSE, !.notify = FALSE,
                          !.delivered = Append(@, user)], user)

\* the provider notifies one subscribed listener of the current principal
onAuthStateChanged ==
    /\ \E i \in DOMAIN auth.calls :
           /\ auth.calls[i].subscribed
           /\ auth.calls[i].notify
           /\ auth' = [auth EXCEPT !.calls[i] = Listener(@, auth.session)]
    /\ UNCHANGED <<repoVars, probe, hook, acl, upd, seed>>

NextSession ==
    \/ registerUser
    \/ loginUser
    \/ logoutUser
    \/ getCurrentUser
    \/ onAuthStateChanged

SpecSession == Init /\ [][NextSession]_vars

-----------------------------------------------------------------------------
(* The auth context (FirebaseProvider): its state is user and loading; its
   login, logout and register call the gateway and then set user *)

\* the e-mail addresses the context's login and register are called with
ContextPrincipals == {"ann", "bob"}

\* the provider mounts: useState(null), useState(true), and the effect calls
\* initializeAuth, which awaits getCurrentUser()
FirebaseProvider ==
    /\ hook = HookIdle
    /\ hook' = [kind |-> "FirebaseProvider", user |-> NoUser, loading |-> TRUE]
    /\ auth' = [auth EXCEPT !.calls = Append(@, [subscribed |-> TRUE, notify |-> TRUE,
                                                 delivered |-> << >>,
                                                 settled |-> FALSE, value |-> NoUser])]
    /\ UNCHANGED <<repoVars, probe, acl, upd, seed>>

\* the session-state listener of initializeAuth's call fires, and
\* initializeAuth goes on: setUser(currentUser), finally setLoading(false)
initializeAuth ==
    /\ hook.kind = "FirebaseProvider"
    /\ auth.calls[1].subscribed
    /\ auth.calls[1].notify
    /\ auth' = [auth EXCEPT !.calls[1] = Listener(@, auth.session)]
    /\ hook' = [hook EXCEPT !.user = auth'.calls[1].value, !.loading = FALSE]
    /\ UNCHANGED <<repoVars, probe, acl, upd, seed>>

\* login: loggedInUser = await loginUser(email, password);
\* setUser(loggedInUser); return loggedInUser
login ==
    /\ hook.kind = "FirebaseProvider"
    /\ \E email \in ContextPrincipals :
           /\ \/ /\ email \in auth.accounts
                 /\ SessionBecomes(<<email>>, auth.accounts)
                 /\ last' = AuthCall("login", <<email>>, "user", <<email>>, "ok")
              \/ /\ UNCHANGED auth
                 /\ last' = AuthCall("login", <<email>>, "null", << >>, "failed")
           /\ hook' = [hook EXCEPT !.user = last'.ret]
    /\ StoreUntouched
    /\ UNCHANGED <<probe, acl, upd, seed>>

\* logout: success = await logoutUser(); if (success) setUser(null)
logout ==
    /\ hook.kind = "FirebaseProvider"
    /\ \/ /\ SessionBecomes(NoUser, auth.accounts)
          /\ last' = AuthCall("logout", << >>, "true", << >>, "ok")
          /\ hook' = [hook EXCEPT !.user = NoUser]
       \/ /\ UNCHANGED <<auth, hook>>
          /\ last' = AuthCall("logout", << >>, "false", << >>, "failed")
    /\ StoreUntouched
    /\ UNCHANGED <<probe, acl, upd, seed>>

\* register: registeredUser = await registerUser(email, password);
\* setUser(registeredUser); return registeredUser
register ==
    /\ hook.kind = "FirebaseProvider"
    /\ \E email \in ContextPrincipals :
           /\ \/ /\ email \notin auth.accounts
                 /\ SessionBecomes(<<email>>, auth.accounts \cup {email})
                 /\ last' = AuthCall("register", <<email>>, "user", <<email>>, "ok")
              \/ /\ UNCHANGED auth
                 /\ last' = AuthCall("register", <<email>>, "null", << >>, "failed")
           /\ hook' = [hook EXCEPT !.user = last'.ret]
    /\ StoreUntouched
    /\ UNCHANGED <<probe, acl, upd, seed>>

NextProvider ==
    \/ FirebaseProvider
    \/ initializeAuth
    \/ login
    \/ logout
    \/ register

SpecProvider == Init /\ [][NextProvider]_vars

-----------------------------------------------------------------------------
(* The repositories, called in any order *)

Next ==
    \/ addCustomer
    \/ updateCustomer
    \/ addRepair
    \/ updateRepair
    \/ addProduct
    \/ updateProduct
    \/ addTechnician
    \/ updateTechnician

Spec == Init /\ [][Next]_vars

\* every exported repository and auth-gateway function except getCurrentUser
NextGateway ==
    \/ Next
    \/ getCustomers
    \/ getRepairs
    \/ getRepairsByStatus
    \/ getRepairsByCustomerId
    \/ getProducts
    \/ getProductsByCategory
    \/ getTechnicians
    \/ getAvailableTechnicians
    \/ registerUser
    \/ loginUser
    \/ logoutUser

SpecGateway == Init /\ [][NextGateway]_vars

-----------------------------------------------------------------------------
(* The data-fetch hooks: one mounted hook over a store that holds a repair
   and a product *)

\* the number of fetches one mounted hook starts
MaxFetches == 2

ListHooks ==
    {"useCustomers", "useRepairs", "useProducts", "useTechnicians",
     "useAvailableTechnicians"}

ParamHooks == {"useRepairsByStatus", "useRepairsByCustomerId", "useProductsByCategory"}

\* the hooks whose effect tests its parameter before fetching
GuardedHooks == {"useRepairsByCustomerId", "useProductsByCategory"}

\* the store after addRepair and addProduct of one valid payload each
InitHooks ==
    /\ db = [customers |-> Obj0,
             repairs |-> DocId(1) :>
                 Resolve(Spread([customer_id |-> <<"doc1">>, device_type |-> <<"phone">>,
                                 brand |-> <<"acme">>, model |-> <<"m1">>,
                                 issue_description |-> <<"cracked">>,
                                 status |-> <<"pending">>, cost |-> 0,
                                 tasks |-> << <<"screen">> >>],
                                [repair_id |-> <<"jan1000">>,
                                 created_date |-> ServerTimestamp,
                                 updatedAt |-> ServerTimestamp]), 1),
             products |-> DocId(2) :>
                 Resolve(Spread([name |-> <<"kit">>, category |-> <<"parts">>,
                                 quantity |-> 25, price |-> 50, supplier |-> <<"acme">>],
                                [product_id |-> <<"PROD-K3X9Q2ZA">>,
                                 createdAt |-> ServerTimestamp,
                                 updatedAt |-> ServerTimestamp]), 2),
             technicians |-> Obj0]
    /\ nextDoc = 2
    /\ clock = 2
    /\ last = NoCall
    /\ Idle({"probe", "auth", "hook", "acl", "upd", "seed"})

\* the repository call of each hook's fetch function, and what it returns
HookFetch(kind, param, storeOk) ==
    CASE kind = "useCustomers" -> ReadResult(getDocs("customers"), storeOk)
      [] kind = "useRepairs" -> ReadResult(getDocs("repairs"), storeOk)
      [] kind = "useRepairsByStatus" ->
             ReadResult(getDocsWhere("repairs", "status", param), storeOk)
      [] kind = "useRepairsByCustomerId" ->
             ReadResult(getDocsWhere("repairs", "customer_id", param), storeOk)
      [] kind = "useProducts" -> ReadResult(getDocs("products"), storeOk)
      [] kind = "useProductsByCategory" ->
             ReadResult(getDocsWhere("products", "category", param), storeOk)
      [] kind = "useTechnicians" -> ReadResult(getDocs("technicians"), storeOk)
      [] kind = "useAvailableTechnicians" ->
             ReadResult(getDocsWhere("technicians", "availability", TRUE), storeOk)

\* if (customerId) / if (category): a non-empty string
Truthy(param) == param # << >>

\* whether the effect of this hook goes to the repository for this parameter
Fetches(kind, param) == kind \in GuardedHooks => Truthy(param)

\* a render of the hook: the first one creates its state (useState) and
\* schedules the effect; a later one with a changed parameter schedules the
\* effect again (React runs a scheduled effect before it renders again)
Render(kind, param) ==
    /\ \/ /\ hook.kind = "none"
          /\ hook' = [kind |-> kind, param |-> param, data |-> << >>, loading |-> TRUE,
                      error |-> "null", effect |-> TRUE, shorted |-> FALSE,
                      fetches |-> << >>]
       \/ /\ hook.kind = kind
          /\ ~hook.effect
          /\ param # hook.param
          /\ Fetches(kind, param) => Len(hook.fetches) < MaxFetches
          /\ hook' = [hook EXCEPT !.param = param, !.effect = TRUE]
    /\ UNCHANGED <<repoVars, probe, auth, acl, upd, seed>>

useCustomers == Render("useCustomers", << >>)

useRepairs == Render("useRepairs", << >>)

useRepairsByStatus == \E status \in StatusParams : Render("useRepairsByStatus", status)

useRepairsByCustomerId ==
    \E customerId \in CustomerIdParams : Render("useRepairsByCustomerId", customerId)

useProducts == Render("useProducts", << >>)

useProductsByCategory ==
    \E category \in CategoryParams : Render("useProductsByCategory", category)

useTechnicians == Render("useTechnicians", << >>)

useAvailableTechnicians == Render("useAvailableTechnicians", << >>)

\* the effect: start the fetch (setLoading(true), then the repository call is
\* awaited), or for a guarded hook with a falsy parameter setRepairs([]) and
\* setLoading(false)
runEffect ==
    /\ hook.kind # "none"
    /\ hook.effect
    /\ IF Fetches(hook.kind, hook.param)
       THEN hook' = [hook EXCEPT !.effect = FALSE, !.shorted = FALSE, !.loading = TRUE,
                                 !.fetches = Append(@, [param |-> hook.param,
                                                        state |-> "pending",
                                                        storeOk |-> TRUE,
                                                        result |-> << >>])]
       ELSE hook' = [hook EXCEPT !.effect = FALSE, !.shorted = TRUE, !.data = << >>,
                                 !.loading = FALSE]
    /\ UNCHANGED <<repoVars, probe, auth, acl, upd, seed>>

\* the rest of a fetch function that forgets its finally block
ResumeNoFinally(h, i, rejected, value) ==
    IF rejected
    THEN [h EXCEPT !.error = "error", !.fetches[i].state = "failed"]
    ELSE [h EXCEPT !.data = value, !.error = "null",
                   !.fetches[i].state = "settled", !.fetches[i].result = value]

\* the rest of a fetch function once its repository call has settled:
\* setX(data); setError(null) or, had the call rejected, setError(err); and
\* in both cases setLoading(false)
Resume(h, i, rejected, value) ==
    IF rejected
    THEN [h EXCEPT !.error = "error", !.loading = FALSE, !.fetches[i].state = "failed"]
    ELSE [h EXCEPT !.data = value, !.error = "null", !.loading = FALSE,
                   !.fetches[i].state = "settled", !.fetches[i].result = value]

\* a read that lets the store's failure through to the hook
RejectsOnStoreFailure(kind, storeOk) == ~storeOk

\* whether the promise of the hook's repository call is rejected: never,
\* every read function catches the store's failure and returns []
Rejects(kind, storeOk) == FALSE

\* a repository call returns to the fetch that awaits it, the store having
\* answered it or not
settleFetch ==
    /\ hook.kind # "none"
    /\ \E i \in DOMAIN hook.fetches : \E storeOk \in BOOLEAN :
           /\ hook.fetches[i].state = "pending"
           /\ hook' = [Resume(hook, i, Rejects(hook.kind, storeOk),
                              HookFetch(hook.kind, hook.fetches[i].param, storeOk))
                          EXCEPT !.fetches[i].storeOk = storeOk]
    /\ UNCHANGED <<repoVars, probe, auth, acl, upd, seed>>

NextHooks ==
    \/ useCustomers
    \/ useRepairs
    \/ useRepairsByStatus
    \/ useRepairsByCustomerId
    \/ useProducts
    \/ useProductsByCategory
    \/ useTechnicians
    \/ useAvailableTechnicians
    \/ runEffect
    \/ settleFetch

SpecHooks == InitHooks /\ [][NextHooks]_vars

\* React runs every scheduled effect, and every repository call returns
SpecHooksFair == SpecHooks /\ WF_vars(runEffect) /\ WF_vars(settleFetch)

-----------------------------------------------------------------------------
(* The validators applied to candidate records: one candidate per run *)

Candidate(kind, rec) == [kind |-> kind, rec |-> rec, done |-> FALSE, res |-> Result(<< >>)]

InitValidate ==
    /\ db = [c \in Collections |-> Obj0]
    /\ nextDoc = 0
    /\ clock = 0
    /\ last = NoCall
    /\ probe \in {Candidate("customer", c) : c \in CustomerCandidates}
            \cup {Candidate("repair", r) : r \in RepairCandidates}
            \cup {Candidate("product", p) : p \in ProductCandidates}
            \cup {Candidate("technician", t) : t \in TechnicianCandidates}
    /\ Idle({"auth", "hook", "acl", "upd", "seed"})

CallValidateCustomer ==
    /\ probe.kind = "customer" /\ ~probe.done
    /\ probe' = [probe EXCEPT !.done = TRUE, !.res = validateCustomer(probe.rec)]
    /\ UNCHANGED <<repoVars, auth, hook, acl, upd, seed>>

CallValidateRepair ==
    /\ probe.kind = "repair" /\ ~probe.done
    /\ probe' = [probe EXCEPT !.done = TRUE, !.res = validateRepair(probe.rec)]
    /\ UNCHANGED <<repoVars, auth, hook, acl, upd, seed>>

CallValidateProduct ==
    /\ probe.kind = "product" /\ ~probe.done
    /\ probe' = [probe EXCEPT !.done = TRUE, !.res = validateProduct(probe.rec)]
    /\ UNCHANGED <<repoVars, auth, hook, acl, upd, seed>>

CallValidateTechnician ==
    /\ probe.kind = "technician" /\ ~probe.done
    /\ probe' = [probe EXCEPT !.done = TRUE, !.res = validateTechnician(probe.rec)]
    /\ UNCHANGED <<repoVars, auth, hook, acl, upd, seed>>

NextValidate ==
    \/ CallValidateCustomer
    \/ CallValidateRepair
    \/ CallValidateProduct
    \/ CallValidateTechnician

SpecValidate == InitValidate /\ [][NextValidate]_vars

-----------------------------------------------------------------------------
(* The security rules (firebaseRules.txt).  A request is
   [op, coll, id, data]: op is "read", "create", "update" or "delete", data
   is request.resource.data (the document as it would be after the write).
   Fields hold values of their declared type, so the `is string`, `is number`,
   `is list` and `is bool` tests hold for every field that is present. *)

\* request.auth != null
isAuthenticated(actor) == actor # NoUser

\* get(/databases/$(database)/documents/users/$(request.auth.uid)).data.role
\* == role, false when the document or the field is missing
HasRole(actor, users, role) ==
    /\ actor[1] \in DOMAIN users
    /\ Prop(users[actor[1]], "role") = <<role>>

isAdmin(actor, users) == isAuthenticated(actor) /\ HasRole(actor, users, "admin")

\* isStaff that only tests that the role document exists
isStaffAnyRole(actor, users) == isAuthenticated(actor) /\ actor[1] \in DOMAIN users

isStaff(actor, users) ==
    /\ isAuthenticated(actor)
    /\ (HasRole(actor, users, "staff") \/ HasRole(actor, users, "admin"))

\* 'key' in rec && rec.key.size() > 0, for a string or a list
Sized(rec, key) == key \in DOMAIN rec /\ Len(rec[key]) > 0

\* 'key' in rec && rec.key >= 0
AtLeastZero(rec, key) == key \in DOMAIN rec /\ rec[key] >= 0

\* email.matches('^[^\\s@]+@[^\\s@]+\\.[^\\s@]+$')
MatchesEmail(email) ==
    \E i \in 1..Len(email) : \E j \in (i + 1)..Len(email) :
        /\ email[i] = "@"
        /\ email[j] = "."
        /\ NoWsAtPlus(SubSeq(email, 1, i - 1))
        /\ NoWsAtPlus(SubSeq(email, i + 1, j - 1))
        /\ NoWsAtPlus(SubSeq(email, j + 1, Len(email)))

isValidCustomer(customer) ==
    /\ DOMAIN customer # {}
    /\ Sized(customer, "name")
    /\ Sized(customer, "phone")
    /\ ("email" \notin DOMAIN customer \/ MatchesEmail(customer.email))
    /\ "address" \in DOMAIN customer

isValidRepair(repair) ==
    /\ DOMAIN repair # {}
    /\ Sized(repair, "customer_id")
    /\ Sized(repair, "device_type")
    /\ Sized(repair, "brand")
    /\ Sized(repair, "model")
    /\ "status" \in DOMAIN repair
    /\ (repair.status = <<"pending">> \/ repair.status = <<"in-progress">>
            \/ repair.status = <<"completed">>)
    /\ AtLeastZero(repair, "cost")
    /\ Sized(repair, "tasks")

isValidProduct(product) ==
    /\ DOMAIN product # {}
    /\ Sized(product, "name")
    /\ Sized(product, "category")
    /\ AtLeastZero(product, "quantity")
    /\ AtLeastZero(product, "price")
    /\ Sized(product, "supplier")

isValidTechnician(technician) ==
    /\ DOMAIN technician # {}
    /\ Sized(technician, "name")
    /\ Sized(technician, "specialization")
    /\ "availability" \in DOMAIN technician
    /\ Sized(technician, "phone")
    /\ ("email" \notin DOMAIN technician \/ MatchesEmail(technician.email))

Writes == {"create", "update", "delete"}

\* match /customers/{customerId}
AllowCustomers(actor, users, req) ==
    CASE req.op = "read" -> isAuthenticated(actor)
      [] req.op = "create" -> isStaff(actor, users) /\ isValidCustomer(req.data)
      [] req.op = "update" -> isStaff(actor, users) /\ isValidCustomer(req.data)
      [] req.op = "delete" -> isAdmin(actor, users)

\* match /repairs/{repairId}
AllowRepairs(actor, users, req) ==
    CASE req.op = "read" -> isAuthenticated(actor)
      [] req.op = "create" -> isStaff(actor, users) /\ isValidRepair(req.data)
      [] req.op = "update" -> isStaff(actor, users) /\ isValidRepair(req.data)
      [] req.op = "delete" -> isAdmin(actor, users)

\* match /products/{productId}
AllowProducts(actor, users, req) ==
    CASE req.op = "read" -> isAuthenticated(actor)
      [] req.op = "create" -> isStaff(actor, users) /\ isValidProduct(req.data)
      [] req.op = "update" -> isStaff(actor, users) /\ isValidProduct(req.data)
      [] req.op = "delete" -> isAdmin(actor, users)

\* match /technicians/{technicianId}
AllowTechnicians(actor, users, req) ==
    CASE req.op = "read" -> isAuthenticated(actor)
      [] req.op = "create" -> isAdmin(actor, users) /\ isValidTechnician(req.data)
      [] req.op = "update" -> isAdmin(actor, users) /\ isValidTechnician(req.data)
      [] req.op = "delete" -> isAdmin(actor, users)

\* match /users/{userId}
AllowUsers(actor, users, req) ==
    CASE req.op = "read" -> isAuthenticated(actor) /\ actor[1] = req.id
      [] req.op \in Writes ->
             isAdmin(actor, users) \/ (isAuthenticated(actor) /\ actor[1] = req.id)

Allow(actor, users, req) ==
    CASE req.coll = "customers" -> AllowCustomers(actor, users, req)
      [] req.coll = "repairs" -> AllowRepairs(actor, users, req)
      [] req.coll = "products" -> AllowProducts(actor, users, req)
      [] req.coll = "technicians" -> AllowTechnicians(actor, users, req)
      [] req.coll = "users" -> AllowUsers(actor, users, req)

Request(op, coll, id, data) == [op |-> op, coll |-> coll, id |-> id, data |-> data]

NoRequest == Request("none", "none", "none", Obj0)

\* the users collection after an allowed write to it
Written(users, req) ==
    CASE req.op = "delete" -> [u \in DOMAIN users \ {req.id} |-> users[u]]
      [] req.op \in {"create", "update"} -> (req.id :> req.data) @@ users
      [] OTHER -> users

\* the rules decide a request of the actor; an allowed write to users/{id}
\* is carried out
Decided(a, req) ==
    LET ok == Allow(a.actor, a.users, req)
    IN  [a EXCEPT !.req = req, !.allowed = ok,
                  !.users = IF ok /\ req.coll = "users" THEN Written(@, req) ELSE @]

\* the principals that have role documents, and the documents
Uids == {"ann", "bob"}

UserDocs == {[role |-> "admin"], [role |-> "staff"], [role |-> "customer"]}

\* users/ann missing or with any role, users/bob missing or admin
UserTables ==
    {a @@ b : a \in Opt("ann", UserDocs), b \in Opt("bob", {[role |-> "admin"]})}

\* one principal (or nobody) issues every request of a run
InitRules ==
    /\ EmptyStore
    /\ Idle({"probe", "auth", "hook", "upd", "seed"})
    /\ \E actor \in {NoUser, <<"ann">>} : \E users \in UserTables :
           acl = [actor |-> actor, users |-> users, start |-> users,
                  req |-> NoRequest, allowed |-> FALSE]

\* the actor submits a request and the rules decide it
Submit(req) ==
    /\ acl' = Decided(acl, req)
    /\ UNCHANGED <<repoVars, probe, auth, hook, upd, seed>>

matchCustomers ==
    \E op \in {"read"} \cup Writes : \E data \in CustomerPayloads :
        Submit(Request(op, "customers", "doc1", IF op \in {"create", "update"} THEN data ELSE Obj0))

matchRepairs ==
    \E op \in {"read"} \cup Writes : \E data \in RepairPayloads :
        Submit(Request(op, "repairs", "doc1", IF op \in {"create", "update"} THEN data ELSE Obj0))

matchProducts ==
    \E op \in {"read"} \cup Writes : \E data \in ProductPayloads :
        Submit(Request(op, "products", "doc1", IF op \in {"create", "update"} THEN data ELSE Obj0))

matchTechnicians ==
    \E op \in {"read"} \cup Writes : \E data \in TechnicianPayloads :
        Submit(Request(op, "technicians", "doc1", IF op \in {"create", "update"} THEN data ELSE Obj0))

\* on a users document a set() is a create or an update according to
\* whether the document exists
matchUsers ==
    \E userId \in Uids :
        \/ Submit(Request("read", "users", userId, Obj0))
        \/ /\ userId \in DOMAIN acl.users
           /\ Submit(Request("delete", "users", userId, Obj0))
        \/ \E data \in UserDocs :
               Submit(Request(IF userId \in DOMAIN acl.users THEN "update" ELSE "create",
                              "users", userId, data))

NextRules ==
    \/ matchCustomers
    \/ matchRepairs
    \/ matchProducts
    \/ matchTechnicians
    \/ matchUsers

SpecRules == InitRules /\ [][NextRules]_vars

\* the collection of each kind of candidate
CollOf(kind) ==
    CASE kind = "customer" -> "customers"
      [] kind = "repair" -> "repairs"
      [] kind = "product" -> "products"
      [] kind = "technician" -> "technicians"

\* one candidate record per run, validated by the client and then submitted
\* for creation by an admin, so that the rules' decision is the verdict of
\* the collection's isValid function
InitPolicy ==
    /\ EmptyStore
    /\ probe \in {Candidate("customer", c) : c \in CustomerRecords}
            \cup {Candidate("repair", r) : r \in RepairCandidates}
            \cup {Candidate("product", p) : p \in ProductCandidates}
            \cup {Candidate("technician", t) : t \in TechnicianCandidates}
    /\ Idle({"auth", "hook", "upd", "seed"})
    /\ acl = [actor |-> <<"ann">>, users |-> "ann" :> [role |-> "admin"],
              start |-> "ann" :> [role |-> "admin"],
              req |-> NoRequest, allowed |-> FALSE]

createCandidate ==
    /\ probe.done
    /\ acl.req = NoRequest
    /\ Submit(Request("create", CollOf(probe.kind), "doc1", probe.rec))

NextPolicy ==
    \/ CallValidateCustomer
    \/ CallValidateRepair
    \/ CallValidateProduct
    \/ CallValidateTechnician
    \/ createCandidate

SpecPolicy == InitPolicy /\ [][NextPolicy]_vars

-----------------------------------------------------------------------------
(* Two updateCustomer calls in progress on the same document: each call is
   the two awaits of the function, getDoc and updateDoc, and the calls
   interleave at the awaits *)

Callers == {"first", "second"}

\* the partial records the two calls pass
ConcurrentPartials ==
    { [name |-> <<"amy">>],
      [phone |-> <<"777">>],
      [address |-> <<"y">>] }

UpdCall(customer) ==
    [customer |-> customer, pc |-> "called", currentData |-> Obj0,
     readAt |-> 0, wroteAt |-> 0, result |-> "none"]

\* a customer document added at time 0, and both calls made
InitConcurrent ==
    /\ db = [customers |-> DocId(1) :>
                 [name |-> <<"ann">>, phone |-> <<"555">>,
                  email |-> <<"a", "@", "b", ".", "c">>, address |-> <<"x">>,
                  createdAt |-> [by |-> "server", t |-> 0],
                  updatedAt |-> [by |-> "server", t |-> 0]],
             repairs |-> Obj0, products |-> Obj0, technicians |-> Obj0]
    /\ nextDoc = 1
    /\ clock = 0
    /\ last = NoCall
    /\ upd \in [Callers -> {UpdCall(customer) : customer \in ConcurrentPartials}]
    /\ Idle({"probe", "auth", "hook", "acl", "seed"})

\* { ...currentData, ...customer, updatedAt: serverTimestamp() }
UpdatedData(currentData, customer) ==
    Spread(Spread(currentData, customer), [updatedAt |-> ServerTimestamp])

Returns(c, result) == upd' = [upd EXCEPT ![c].pc = "returned", ![c].result = result]

\* updateCustomer up to its first await: getDoc and the exists() test
updateCustomerGetDoc ==
    /\ \E c \in Callers :
           /\ upd[c].pc = "called"
           /\ \/ /\ DocId(1) \in DOMAIN db["customers"]
                 /\ upd' = [upd EXCEPT ![c].pc = "read",
                                       ![c].currentData = db["customers"][DocId(1)],
                                       ![c].readAt = clock]
              \/ /\ DocId(1) \notin DOMAIN db["customers"]
                 /\ Returns(c, "false")
              \/ Returns(c, "false")
    /\ UNCHANGED <<repoVars, probe, auth, hook, acl, seed>>

\* the same, passing to updateDoc only the fields the caller gave
updateCustomerUpdateDocGivenFields ==
    /\ \E c \in Callers :
           /\ upd[c].pc = "read"
           /\ LET updatedData == UpdatedData(upd[c].currentData, upd[c].customer)
                  validation == validateCustomer(updatedData)
              IN  \/ /\ ~validation.valid
                     /\ Returns(c, "false")
                     /\ StoreUntouched
                  \/ /\ validation.valid
                     /\ updateDoc("customers", DocId(1),
                                  Spread(upd[c].customer, [updatedAt |-> ServerTimestamp]))
                     /\ upd' = [upd EXCEPT ![c].pc = "returned", ![c].result = "true",
                                           ![c].wroteAt = clock + 1]
                  \/ /\ validation.valid
                     /\ Returns(c, "false")
                     /\ StoreUntouched
    /\ UNCHANGED <<last, probe, auth, hook, acl, seed>>

\* updateCustomer from its first await on: merge, validate, updateDoc, return
updateCustomerUpdateDoc ==
    /\ \E c \in Callers :
           /\ upd[c].pc = "read"
           /\ LET updatedData == UpdatedData(upd[c].currentData, upd[c].customer)
                  validation == validateCustomer(updatedData)
              IN  \/ /\ ~validation.valid
                     /\ Returns(c, "false")
                     /\ StoreUntouched
                  \/ /\ validation.valid
                     /\ updateDoc("customers", DocId(1), updatedData)
                     /\ upd' = [upd EXCEPT ![c].pc = "returned", ![c].result = "true",
                                           ![c].wroteAt = clock + 1]
                  \/ /\ validation.valid
                     /\ Returns(c, "false")
                     /\ StoreUntouched
    /\ UNCHANGED <<last, probe, auth, hook, acl, seed>>

NextConcurrent ==
    \/ updateCustomerGetDoc
    \/ updateCustomerUpdateDoc

SpecConcurrent == InitConcurrent /\ [][NextConcurrent]_vars

-----------------------------------------------------------------------------
(* seedDatabase (firebaseAdmin.ts): the sample records are added one awaited
   call after the other.  Amounts are in cents.  A run adds up to thirteen
   documents, so its writes are not held to MaxDocs and MaxClock. *)

sampleCustomers ==
    << [name |-> <<"John", " ", "Doe">>, phone |-> <<"123-456-7890">>,
        email |-> <<"john", ".", "doe", "@", "example", ".", "com">>,
        address |-> <<"123", " ", "Main", " ", "St">>],
       [name |-> <<"Jane", " ", "Smith">>, phone |-> <<"987-654-3210">>,
        email |-> <<"jane", ".", "smith", "@", "example", ".", "com">>,
        address |-> <<"456", " ", "Oak", " ", "Ave">>],
       [name |-> <<"Robert", " ", "Johnson">>, phone |-> <<"555-123-4567">>,
        email |-> <<"robert", ".", "johnson", "@", "example", ".", "com">>,
        address |-> <<"789", " ", "Pine", " ", "Rd">>] >>

sampleTechnicians ==
    << [name |-> <<"Mike", " ", "Wilson">>,
        specialization |-> << <<"Mobile", " ", "Phones">>, <<"Tablets">> >>,
        availability |-> TRUE,
        email |-> <<"mike", ".", "wilson", "@", "techrepair", ".", "com">>,
        phone |-> <<"555-789-1234">>],
       [name |-> <<"Sarah", " ", "Lee">>,
        specialization |-> << <<"Laptops">>, <<"Desktops">> >>,
        availability |-> TRUE,
        email |-> <<"sarah", ".", "lee", "@", "techrepair", ".", "com">>,
        phone |-> <<"555-456-7890">>],
       [name |-> <<"David", " ", "Chen">>,
        specialization |-> << <<"Game", " ", "Consoles">>, <<"Smart", " ", "Watches">> >>,
        availability |-> FALSE,
        email |-> <<"david", ".", "chen", "@", "techrepair", ".", "com">>,
        phone |-> <<"555-234-5678">>] >>

sampleProducts ==
    << [name |-> <<"iPhone", " ", "Screen", " ", "Replacement", " ", "Kit">>,
        category |-> <<"Repair", " ", "Parts">>, quantity |-> 25, price |-> 4999,
        supplier |-> <<"Tech", " ", "Parts", " ", "Inc", ".">>,
        sku |-> <<"IP-SCRN-1113">>],
       [name |-> <<"Samsung", " ", "Battery", " ", "Pack">>,
        category |-> <<"Repair", " ", "Parts">>, quantity |-> 15, price |-> 2999,
        supplier |-> <<"Samsung", " ", "Parts">>, sku |-> <<"SG-BAT-1021">>],
       [name |-> <<"Universal", " ", "Laptop", " ", "Charger">>,
        category |-> <<"Accessories">>, quantity |-> 30, price |-> 3999,
        supplier |-> <<"Power", " ", "Solutions">>, sku |-> <<"ACC-CHRG-UNI">>],
       [name |-> <<"Anti-Static", " ", "Wrist", " ", "Strap">>,
        category |-> <<"Tools">>, quantity |-> 50, price |-> 999,
        supplier |-> <<"Tech", " ", "Tools">>, sku |-> <<"TL-ANTST-01">>] >>

\* ids[k], a property left undefined when the array is shorter
IdAt(key, ids, k) == IF k <= Len(ids) THEN key :> ids[k] ELSE Obj0

sampleRepairs(customerIds, technicianIds) ==
    << IdAt("customer_id", customerIds, 1) @@ IdAt("technician_id", technicianIds, 1) @@
       [device_type |-> <<"Mobile", " ", "Phone">>, brand |-> <<"Apple">>,
        model |-> <<"iPhone", " ", "13">>,
        issue_description |-> <<"Cracked", " ", "screen">>,
        status |-> <<"in-progress">>, cost |-> 14999,
        tasks |-> << <<"Screen", " ", "Replacement">>, <<"Battery", " ", "Replacement">> >>,
        passcode |-> <<"1234">>],
       IdAt("customer_id", customerIds, 2) @@ IdAt("technician_id", technicianIds, 2) @@
       [device_type |-> <<"Laptop">>, brand |-> <<"Dell">>,
        model |-> <<"XPS", " ", "15">>,
        issue_description |-> <<"Not", " ", "powering", " ", "on">>,
        status |-> <<"pending">>, cost |-> 29999,
        tasks |-> << <<"Diagnostic">>, <<"Motherboard", " ", "Repair">> >>],
       IdAt("customer_id", customerIds, 3) @@ IdAt("technician_id", technicianIds, 3) @@
       [device_type |-> <<"Game", " ", "Console">>, brand |-> <<"Sony">>,
        model |-> <<"PlayStation", " ", "5">>,
        issue_description |-> <<"Overheating">>,
        status |-> <<"completed">>, cost |-> 8999,
        tasks |-> << <<"Cleaning">>, <<"Thermal", " ", "Paste", " ", "Replacement">> >>,
        notes |-> <<"Customer", " ", "requested", " ", "rush", " ", "service">>] >>

\* addDoc(collection, data), accepted
Added(coll, data) ==
    /\ db' = [db EXCEPT ![coll] = (DocId(nextDoc + 1) :> Resolve(data, clock + 1)) @@ @]
    /\ nextDoc' = nextDoc + 1
    /\ clock' = clock + 1

\* one add call of the run: it throws when throws holds (addCustomer with an
\* invalid record), returns null when the record is invalid or the store
\* refuses the write, and returns the new id otherwise
AddCall(coll, payload, data, valid, throws) ==
    \/ /\ ~valid
       /\ StoreUntouched
       /\ last' = Call("add", coll, << >>, payload, IF throws THEN "thrown" ELSE "null",
                       << >>, << >>, "none", "none")
    \/ /\ valid
       /\ Added(coll, data)
       /\ last' = Call("add", coll, << >>, payload, "id", DocId(nextDoc + 1), << >>,
                       "none", "ok")
    \/ /\ valid
       /\ StoreUntouched
       /\ last' = Call("add", coll, << >>, payload, "null", << >>, << >>, "none", "failed")

\* a guard that only asks for a customer
RepairsGuardCustomersOnly(customerIds, technicianIds) == Len(customerIds) > 0

\* if (customerIds.length > 0 && technicianIds.length > 0)
RepairsGuard(customerIds, technicianIds) ==
    Len(customerIds) > 0 /\ Len(technicianIds) > 0

\* the position after a loop iteration: the next element, or the next loop
Moved(s) ==
    CASE s.pc = "customers" /\ s.i > Len(sampleCustomers) ->
             [s EXCEPT !.pc = "technicians", !.i = 1]
      [] s.pc = "technicians" /\ s.i > Len(sampleTechnicians) ->
             [s EXCEPT !.pc = "products", !.i = 1]
      [] s.pc = "products" /\ s.i > Len(sampleProducts) ->
             IF RepairsGuard(s.customerIds, s.technicianIds)
             THEN [s EXCEPT !.pc = "repairs", !.i = 1]
             ELSE [s EXCEPT !.pc = "done", !.i = 1]
      [] s.pc = "repairs" /\ s.i > Len(sampleRepairs(s.customerIds, s.technicianIds)) ->
             [s EXCEPT !.pc = "done", !.i = 1]
      [] OTHER -> s

\* if (id) ids.push(id); the products and repairs loops keep no ids
Pushed(s, ids, id) ==
    IF ids # "none" /\ id # << >> THEN [s EXCEPT ![ids] = Append(@, id[1])] ELSE s

\* the call has returned: the run notes it, keeps the id if there is one and
\* moves on; a thrown error ends the run (catch: throw error)
Iterated(coll, ids) ==
    IF last'.result = "thrown"
    THEN [seed EXCEPT !.pc = "thrown", !.log = Append(@, coll)]
    ELSE Moved(Pushed([seed EXCEPT !.i = @ + 1, !.log = Append(@, coll)], ids,
                      IF last'.result = "id" THEN <<last'.ret>> ELSE << >>))

\* seedDatabase is called
seedDatabase ==
    /\ seed = SeedIdle
    /\ seed' = [pc |-> "customers", i |-> 1, customerIds |-> << >>,
                technicianIds |-> << >>, log |-> << >>]
    /\ UNCHANGED <<repoVars, probe, auth, hook, acl, upd>>

\* for (const customer of sampleCustomers): await addCustomer(customer)
seedCustomer ==
    /\ seed.pc = "customers"
    /\ LET customer == sampleCustomers[seed.i]
           customerData == Spread(customer, [createdAt |-> ServerTimestamp,
                                             updatedAt |-> ServerTimestamp])
       IN  AddCall("customers", customer, customerData,
                   validateCustomer(customer).valid, TRUE)
    /\ seed' = Iterated("customers", "customerIds")
    /\ UNCHANGED <<probe, auth, hook, acl, upd>>

\* for (const technician of sampleTechnicians): await addTechnician(technician)
seedTechnician ==
    /\ seed.pc = "technicians"
    /\ \E randomId \in RandomIds6 :
           LET technician == sampleTechnicians[seed.i]
               technicianData == Spread(technician, [tech_id |-> <<"TECH-" \o randomId>>,
                                                     createdAt |-> ServerTimestamp,
                                                     updatedAt |-> ServerTimestamp])
           IN  AddCall("technicians", technician, technicianData,
                       validateTechnician(technicianData).valid, FALSE)
    /\ seed' = Iterated("technicians", "technicianIds")
    /\ UNCHANGED <<probe, auth, hook, acl, upd>>

\* for (const product of sampleProducts): await addProduct(product)
seedProduct ==
    /\ seed.pc = "products"
    /\ \E randomId \in RandomIds8 :
           LET product == sampleProducts[seed.i]
               productData == Spread(product, [product_id |-> <<"PROD-" \o randomId>>,
                                               createdAt |-> ServerTimestamp,
                                               updatedAt |-> ServerTimestamp])
           IN  AddCall("products", product, productData,
                       validateProduct(productData).valid, FALSE)
    /\ seed' = Iterated("products", "none")
    /\ UNCHANGED <<probe, auth, hook, acl, upd>>

\* for (const repair of sampleRepairs): await addRepair(repair); an undefined
\* technician_id is either dropped by the store or makes it refuse the write
seedRepair ==
    /\ seed.pc = "repairs"
    /\ \E month \in Months : \E randomNum \in RandomNums :
           LET repair == sampleRepairs(seed.customerIds, seed.technicianIds)[seed.i]
               repairData == Spread(repair, [repair_id |-> <<month \o ToString(randomNum)>>,
                                             created_date |-> ServerTimestamp,
                                             updatedAt |-> ServerTimestamp])
           IN  AddCall("repairs", repair, repairData,
                       validateRepair(repairData).valid, FALSE)
    /\ seed' = Iterated("repairs", "none")
    /\ UNCHANGED <<probe, auth, hook, acl, upd>>

NextSeed ==
    \/ seedDatabase
    \/ seedCustomer
    \/ seedTechnician
    \/ seedProduct
    \/ seedRepair

InitSeed ==
    /\ EmptyStore
    /\ Idle({"probe", "auth", "hook", "acl", "upd", "seed"})

SpecSeed == InitSeed /\ [][NextSeed]_vars

-----------------------------------------------------------------------------
(* The data-model rules, stated on the record itself *)

\* a required string that is missing, empty or made of whitespace only
Blank(rec, key) ==
    key \notin DOMAIN rec \/ \A i \in 1..Len(rec[key]) : rec[key][i] = " "

\* the shape user@domain.tld: no whitespace, exactly one "@" with text before
\* it, and after it a "." that has text on both sides
EmailShape(s) ==
    /\ \A i \in 1..Len(s) : s[i] # " "
    /\ Cardinality({i \in 1..Len(s) : s[i] = "@"}) = 1
    /\ LET at == CHOOSE i \in 1..Len(s) : s[i] = "@"
       IN  at > 1 /\ \E j \in (at + 2)..(Len(s) - 1) : s[j] = "."

\* an e-mail that is present (non-empty) and not of that shape
EmailMalformed(rec) ==
    "email" \in DOMAIN rec /\ rec["email"] # << >> /\ ~EmailShape(rec["email"])

\* a number that is missing or negative
NotNonNegative(rec, key) == key \notin DOMAIN rec \/ rec[key] < 0

\* a list that is missing or empty
EmptyList(rec, key) == key \notin DOMAIN rec \/ rec[key] = << >>

StatusValues == {<<"pending">>, <<"in-progress">>, <<"completed">>}

\* the messages of the rules a record violates, per validator
ViolatedRules(kind, rec) ==
    CASE kind = "customer" ->
           {m \in {"Name is required", "Phone is required", "Email format is invalid"} :
              \/ m = "Name is required" /\ Blank(rec, "name")
              \/ m = "Phone is required" /\ Blank(rec, "phone")
              \/ m = "Email format is invalid" /\ EmailMalformed(rec)}
      [] kind = "repair" ->
           {m \in {"Customer ID is required", "Device type is required", "Brand is required",
                   "Model is required", "Status is required",
                   "Cost must be a positive number", "At least one task is required"} :
              \/ m = "Customer ID is required" /\ Blank(rec, "customer_id")
              \/ m = "Device type is required" /\ Blank(rec, "device_type")
              \/ m = "Brand is required" /\ Blank(rec, "brand")
              \/ m = "Model is required" /\ Blank(rec, "model")
              \/ m = "Status is required" /\ Blank(rec, "status")
              \/ m = "Cost must be a positive number" /\ NotNonNegative(rec, "cost")
              \/ m = "At least one task is required" /\ EmptyList(rec, "tasks")}
      [] kind = "product" ->
           {m \in {"Name is required", "Category is required", "Supplier is required",
                   "Quantity must be a positive number", "Price must be a positive number"} :
              \/ m = "Name is required" /\ Blank(rec, "name")
              \/ m = "Category is required" /\ Blank(rec, "category")
              \/ m = "Supplier is required" /\ Blank(rec, "supplier")
              \/ m = "Quantity must be a positive number" /\ NotNonNegative(rec, "quantity")
              \/ m = "Price must be a positive number" /\ NotNonNegative(rec, "price")}
      [] kind = "technician" ->
           {m \in {"Name is required", "Phone is required",
                   "At least one specialization is required", "Email format is invalid",
                   "Availability must be a boolean value"} :
              \/ m = "Name is required" /\ Blank(rec, "name")
              \/ m = "Phone is required" /\ Blank(rec, "phone")
              \/ m = "At least one specialization is required" /\ EmptyList(rec, "specialization")
              \/ m = "Email format is invalid" /\ EmailMalformed(rec)
              \/ m = "Availability must be a boolean value" /\ "availability" \notin DOMAIN rec}
      [] OTHER -> {}

-----------------------------------------------------------------------------
(* Claims about the validators, under SpecValidate *)

\* C8: validateRepair reports a repair invalid if and only if one of
\* customer_id, device_type, brand, model, status is empty, or cost is
\* negative, or tasks is empty, or status is not one of pending, in-progress,
\* completed.
C8_RepairInvalidIffRuleOrStatus ==
    (probe.kind = "repair" /\ probe.done) =>
        (~probe.res.valid <=>
            \/ Blank(probe.rec, "customer_id")
            \/ Blank(probe.rec, "device_type")
            \/ Blank(probe.rec, "brand")
            \/ Blank(probe.rec, "model")
            \/ Blank(probe.rec, "status")
            \/ NotNonNegative(probe.rec, "cost")
            \/ EmptyList(probe.rec, "tasks")
            \/ probe.rec["status"] \notin StatusValues)

\* C9: validateCustomer reports a customer invalid if and only if name or
\* phone is missing, empty or whitespace-only, or an e-mail is present
\* (non-empty) and does not have the shape user@domain.tld.
C9_CustomerInvalidIff ==
    (probe.kind = "customer" /\ probe.done) =>
        (~probe.res.valid <=>
            \/ Blank(probe.rec, "name")
            \/ Blank(probe.rec, "phone")
            \/ EmailMalformed(probe.rec))

\* C9 witness: a customer with a name and a phone is rejected for its e-mail
C9_Witness ==
    /\ probe.kind = "customer" /\ probe.done
    /\ ~Blank(probe.rec, "name") /\ ~Blank(probe.rec, "phone")
    /\ ~probe.res.valid

\* C10: every composite validator reports exactly one entry per violated rule
\* (all rules are evaluated, none is skipped after an earlier failure), and
\* valid is true if and only if the errors list is empty.
C10_OneErrorPerViolatedRule ==
    probe.done =>
        /\ {probe.res.errors[i] : i \in 1..Len(probe.res.errors)}
              = ViolatedRules(probe.kind, probe.rec)
        /\ Len(probe.res.errors) = Cardinality(ViolatedRules(probe.kind, probe.rec))
        /\ probe.res.valid <=> probe.res.errors = << >>

\* C10 witness: a technician that violates all five rules gets five entries
C10_Witness ==
    /\ probe.kind = "technician" /\ probe.done
    /\ Cardinality(ViolatedRules("technician", probe.rec)) = 5
    /\ Len(probe.res.errors) = 5

-----------------------------------------------------------------------------
(* Claims about the repositories, under Spec *)

\* the validator of a collection
Validate(coll, rec) ==
    CASE coll = "customers" -> validateCustomer(rec)
      [] coll = "repairs" -> validateRepair(rec)
      [] coll = "products" -> validateProduct(rec)
      [] coll = "technicians" -> validateTechnician(rec)

\* the property that holds a record's creation time
CreatedKey(coll) == IF coll = "repairs" THEN "created_date" ELSE "createdAt"

AllDocs == {<<c, id>> : c \in Collections, id \in UpdateIds}

Stored == {x \in AllDocs : x[2] \in DOMAIN db[x[1]]}

\* C1: an add whose payload fails validation issues no write request and
\* leaves every collection unchanged (all four repositories).
C1_InvalidAddWritesNothing ==
    [][(last'.op = "add" /\ ~Validate(last'.coll, last'.arg).valid)
          => (db' = db /\ last'.write = "none")]_vars

\* C1 witness: an invalid technician is refused while the store holds a document
C1_Witness ==
    /\ last.op = "add" /\ last.coll = "technicians"
    /\ ~validateTechnician(last.arg).valid
    /\ last.write = "none"
    /\ nextDoc > 0

\* C2: an add whose payload fails validation fails towards its caller with a
\* validation error carrying the list of violated rules; it does not return
\* a normal value such as null (all four repositories).
C2_InvalidAddThrowsErrors ==
    (last.op = "add" /\ ~Validate(last.coll, last.arg).valid)
        => (last.result = "thrown" /\ last.errors = Validate(last.coll, last.arg).errors)

\* C3: an add with a valid payload that the store accepts adds exactly one
\* document, which carries a creation and an update timestamp, and returns
\* that document's non-empty identifier (all four repositories).
C3_ValidAddStoresOneStampedDoc ==
    [][(last'.op = "add" /\ Validate(last'.coll, last'.arg).valid /\ last'.write = "ok")
          => /\ last'.result = "id"
             /\ Len(last'.ret) > 0
             /\ last'.ret \notin DOMAIN db[last'.coll]
             /\ DOMAIN db'[last'.coll] = DOMAIN db[last'.coll] \cup {last'.ret}
             /\ \A id \in DOMAIN db[last'.coll] : db'[last'.coll][id] = db[last'.coll][id]
             /\ \A c \in Collections \ {last'.coll} : db'[c] = db[c]
             /\ {CreatedKey(last'.coll), "updatedAt"} \subseteq DOMAIN db'[last'.coll][last'.ret]
             /\ db'[last'.coll][last'.ret][CreatedKey(last'.coll)].by = "server"
             /\ db'[last'.coll][last'.ret]["updatedAt"].by = "server"]_vars

\* C3 witness: a product was added and its id returned
C3_Witness ==
    /\ last.op = "add" /\ last.coll = "products" /\ last.result = "id"
    /\ last.ret \in DOMAIN db["products"]
    /\ "createdAt" \in DOMAIN db["products"][last.ret]

\* C4: an update on an id for which the collection holds no document writes
\* nothing (no document is created or changed) and returns false (all four
\* repositories).
C4_UpdateOfMissingIdWritesNothing ==
    [][(last'.op = "update" /\ last'.id \notin DOMAIN db[last'.coll])
          => (db' = db /\ last'.write = "none" /\ last'.result = "false")]_vars

\* C4 witness: updateTechnician on an absent id returned false after the
\* lookup found nothing, while the store holds other documents
C4_Witness ==
    /\ last.op = "update" /\ last.coll = "technicians"
    /\ last.read = "miss" /\ last.result = "false"
    /\ last.id \notin DOMAIN db["technicians"]
    /\ nextDoc > 0

\* C5: an update validates the stored record merged with the partial fields
\* before persisting; when the merged record is invalid nothing is written
\* and the stored record is unchanged (all four repositories).
C5_InvalidMergeWritesNothing ==
    [][(/\ last'.op = "update"
        /\ last'.id \in DOMAIN db[last'.coll]
        /\ ~Validate(last'.coll, Spread(db[last'.coll][last'.id], last'.arg)).valid)
          => (db' = db /\ last'.write = "none")]_vars

\* the data-model invariants of a stored record
DataModelInvariant(coll, rec) ==
    CASE coll = "customers" ->
           ~Blank(rec, "name") /\ ~Blank(rec, "phone") /\ ~EmailMalformed(rec)
      [] coll = "repairs" ->
           /\ ~Blank(rec, "customer_id") /\ ~Blank(rec, "device_type")
           /\ ~Blank(rec, "brand") /\ ~Blank(rec, "model") /\ ~Blank(rec, "status")
           /\ ~NotNonNegative(rec, "cost")
           /\ ~EmptyList(rec, "tasks")
           /\ rec["status"] \in StatusValues
      [] coll = "products" ->
           /\ ~Blank(rec, "name") /\ ~Blank(rec, "category") /\ ~Blank(rec, "supplier")
           /\ ~NotNonNegative(rec, "quantity") /\ ~NotNonNegative(rec, "price")
      [] coll = "technicians" ->
           /\ ~Blank(rec, "name") /\ ~Blank(rec, "phone") /\ ~EmailMalformed(rec)
           /\ ~EmptyList(rec, "specialization")

\* C6: after any sequence of add and update calls from the empty store,
\* every stored record satisfies the data-model invariants.
C6_StoredRecordsSatisfyInvariants ==
    \A x \in Stored : DataModelInvariant(x[1], db[x[1]][x[2]])

\* C7: every timestamp of a stored record was assigned by the store; a
\* createdAt, updatedAt or created_date supplied by a caller is never the
\* stored value.
C7_TimestampsAssignedByStore ==
    \A x \in Stored :
        \A k \in TimestampKeys \cap DOMAIN db[x[1]][x[2]] :
            db[x[1]][x[2]][k].by = "server"

-----------------------------------------------------------------------------
(* Reads and failures *)

\* the documents of the list operation on a collection whose field equals
\* the value
ListedWhere(coll, field, value) ==
    SelectSeq(MapDocs(getDocs(coll)), LAMBDA d : field \in DOMAIN d /\ d[field] = value)

\* a falsy query parameter: the empty string (getAvailableTechnicians has no
\* parameter)
Falsy(field, value) == field # "availability" /\ value = << >>

\* C11: whatever the store holds, a query-by-field call that the store
\* answers returns exactly the documents of the list operation whose field
\* equals the value, hence the empty sequence when none matches, and it
\* returns the empty sequence when its parameter is falsy.
C11_QueryReturnsMatchesAndEmptyOnFalsy ==
    [][ (last'.op = "query" /\ last'.read = "hit")
            => /\ last'.ret = ListedWhere(last'.coll, last'.arg.field, last'.arg.value)
               /\ (Falsy(last'.arg.field, last'.arg.value) => last'.ret = << >>) ]_vars

\* C12: no repository or auth-gateway call lets a failure of the store or of
\* the credential provider through: on a failed request add, register and
\* login return null, update and logout return false, list and query return
\* the empty sequence.
C12_FailuresBecomeEmptyResults ==
    [][ (last'.read = "failed" \/ last'.write = "failed")
            => /\ last'.op \in {"add", "register", "login"} => last'.result = "null"
               /\ last'.op \in {"update", "logout"} => last'.result = "false"
               /\ last'.op \in {"list", "query"}
                      => last'.result = "list" /\ last'.ret = << >> ]_vars

\* a query failed on a collection that holds matching documents, and
\* returned []
C12_Witness ==
    /\ last.op = "query"
    /\ last.read = "failed"
    /\ last.ret = << >>
    /\ ListedWhere(last.coll, last.arg.field, last.arg.value) # << >>

-----------------------------------------------------------------------------
(* The hooks *)

Mounted == hook.kind # "none"

\* the effect of the mounted hook runs in this step
EffectRuns == Mounted /\ hook.effect /\ ~hook'.effect

\* a fetch of the mounted hook settles in this step
FetchSettles ==
    /\ Mounted
    /\ \E i \in DOMAIN hook.fetches :
           hook.fetches[i].state = "pending" /\ hook'.fetches[i].state # "pending"

NoFetchSettled == \A i \in DOMAIN hook.fetches : hook.fetches[i].state = "pending"

AllFetchesSettled == \A i \in DOMAIN hook.fetches : hook.fetches[i].state # "pending"

\* C13: when the effect of a parameterised hook runs with a falsy parameter,
\* the hook yields the empty result with loading false and starts no
\* repository call.
C13_FalsyParameterShortCircuits ==
    [][ (EffectRuns /\ hook.kind \in ParamHooks /\ ~Truthy(hook.param))
            => /\ hook'.data = << >>
               /\ ~hook'.loading
               /\ hook'.fetches = hook.fetches ]_vars

\* C14 as stated: from mount until the first fetch settles data is [] and
\* loading is true; a fetch that settles makes loading false, and loading is
\* eventually false once mounted; error is null unless a fetch failed.
C14_LoadingUntilFirstFetchSettles ==
    /\ [](Mounted /\ NoFetchSettled => hook.data = << >> /\ hook.loading)
    /\ [][FetchSettles => ~hook'.loading]_vars
    /\ (Mounted ~> (Mounted /\ ~hook.loading))
    /\ [](Mounted /\ hook.error # "null"
              => \E i \in DOMAIN hook.fetches : hook.fetches[i].state = "failed")

\* C14, amended: from mount until the first fetch settles data is [], and
\* loading is true unless the last run of the effect short-circuited on a
\* falsy parameter, which makes it false; a fetch that settles makes loading
\* false, and loading is eventually false once mounted; error is null unless
\* a fetch failed.
C14_LoadingUntilSettledOrShortCircuit ==
    /\ [](Mounted /\ NoFetchSettled
              => hook.data = << >> /\ (hook.loading <=> ~hook.shorted))
    /\ [][FetchSettles => ~hook'.loading]_vars
    /\ (Mounted ~> (Mounted /\ ~hook.loading))
    /\ [](Mounted /\ hook.error # "null"
              => \E i \in DOMAIN hook.fetches : hook.fetches[i].state = "failed")

\* a fetch is in flight and none has settled, the parameter has become falsy
\* and the effect has short-circuited: loading is false
C14_Witness ==
    /\ Mounted
    /\ hook.fetches # << >>
    /\ NoFetchSettled
    /\ hook.shorted
    /\ ~hook.loading
    /\ hook.data = << >>

\* C18: once the effect has run for the latest parameter and every fetch of
\* a parameterised hook has settled, the data is the result for the latest
\* parameter: [] if the effect short-circuited, else what the last started
\* fetch returned.
C18_LatestParameterWins ==
    (Mounted /\ hook.kind \in ParamHooks /\ ~hook.effect /\ AllFetchesSettled)
        => hook.data = (IF hook.shorted THEN << >>
                        ELSE hook.fetches[Len(hook.fetches)].result)

-----------------------------------------------------------------------------
(* getCurrentUser *)

\* C15: a getCurrentUser call is settled exactly when its listener has
\* fired, with the principal the first firing delivered; the listener fires
\* at most once because it is unsubscribed at that firing; a call whose
\* listener has not fired is pending; and nothing that happens after a call
\* is settled changes it.
C15_ResolvesOnceAtFirstFiring ==
    /\ [](\A i \in DOMAIN auth.calls :
              LET call == auth.calls[i]
              IN  /\ call.settled <=> call.delivered # << >>
                  /\ call.settled => call.value = call.delivered[1]
                  /\ call.subscribed <=> call.delivered = << >>
                  /\ Len(call.delivered) <= 1)
    /\ [][\A i \in DOMAIN auth.calls :
              auth.calls[i].settled => auth'.calls[i] = auth.calls[i]]_vars

\* a call resolved with the signed-in principal, who has signed out since
C15_Witness ==
    \E i \in DOMAIN auth.calls :
        /\ auth.calls[i].settled
        /\ auth.calls[i].value # NoUser
        /\ auth.session = NoUser

-----------------------------------------------------------------------------
(* The access-control policy *)

\* the role in the actor's role record, << >> when there is none
Role(actor, users) ==
    IF actor = NoUser \/ actor[1] \notin DOMAIN users
    THEN << >>
    ELSE Prop(users[actor[1]], "role")

ValidFor(coll, data) ==
    CASE coll = "customers" -> isValidCustomer(data)
      [] coll = "repairs" -> isValidRepair(data)
      [] coll = "products" -> isValidProduct(data)
      [] coll = "technicians" -> isValidTechnician(data)

\* C16: an allowed read of customers, repairs, products or technicians comes
\* from an authenticated principal; an allowed create or update comes from a
\* principal whose role record says staff or admin (admin for technicians)
\* and carries a document that passes the collection's validity predicate;
\* an allowed delete comes from an admin; no request of an unauthenticated
\* principal is allowed.
C16_AllowedOnlyByRoleAndValidity ==
    /\ acl.allowed => acl.actor # NoUser
    /\ (acl.allowed /\ acl.req.coll \in Collections)
           => /\ acl.req.op \in {"create", "update"}
                     => /\ Role(acl.actor, acl.users)
                               \in (IF acl.req.coll = "technicians"
                                    THEN {<<"admin">>}
                                    ELSE {<<"staff">>, <<"admin">>})
                        /\ ValidFor(acl.req.coll, acl.req.data)
              /\ acl.req.op = "delete" => Role(acl.actor, acl.users) = <<"admin">>

\* a staff member's create of a valid customer was allowed
C16_Witness ==
    /\ acl.allowed
    /\ acl.req.op = "create"
    /\ acl.req.coll = "customers"
    /\ Role(acl.actor, acl.users) = <<"staff">>

\* C17: the policy's validity predicate accepts a candidate record exactly
\* when the client-side validator accepts it.
C17_PolicyAcceptsIffClientAccepts ==
    (probe.done /\ acl.req.op = "create") => (acl.allowed <=> probe.res.valid)

\* C20: a principal whose role record was not admin when it started issuing
\* requests is still not an admin, and none of its deletes or technician
\* writes is allowed.
C20_NoSelfPromotionToAdmin ==
    (acl.actor # NoUser /\ ~isAdmin(acl.actor, acl.start))
        => /\ ~isAdmin(acl.actor, acl.users)
           /\ ~(/\ acl.allowed
                /\ acl.req.coll \in Collections
                /\ \/ acl.req.op = "delete"
                   \/ acl.req.coll = "technicians" /\ acl.req.op \in {"create", "update"})

-----------------------------------------------------------------------------
(* Concurrent updates *)

\* both calls have returned true and they changed different fields
BothUpdated ==
    /\ upd # UpdIdle
    /\ \A c \in Callers : upd[c].pc = "returned" /\ upd[c].result = "true"
    /\ upd["first"].customer # upd["second"].customer

\* the stored customer holds the change that call c made
Kept(c) == Spread(db["customers"][DocId(1)], upd[c].customer) = db["customers"][DocId(1)]

-----------------------------------------------------------------------------
(* The auth context *)

\* C21: whenever the last thing that happened in the auth context is a
\* settled login, register or logout, the context's user is the credential
\* provider's current session principal.
C21_ContextUserIsSessionPrincipal ==
    (hook.kind = "FirebaseProvider" /\ last.op \in {"login", "register", "logout"})
        => hook.user = auth.session

-----------------------------------------------------------------------------
(* Store failures seen through the hooks *)

\* a fetch whose store request failed settles in this step
FailedFetchSettles ==
    /\ Mounted
    /\ \E i \in DOMAIN hook.fetches :
           /\ hook.fetches[i].state = "pending"
           /\ hook'.fetches[i].state # "pending"
           /\ ~hook'.fetches[i].storeOk

\* C22: the error field of a list or query hook is null in every state, and
\* a fetch that settles after the store failed leaves the hook with empty
\* data, loading false and error null, which is what a successful fetch of
\* an empty collection leaves.
C22_StoreFailureLooksLikeNoData ==
    /\ [](Mounted => hook.error = "null")
    /\ [][FailedFetchSettles
              => /\ hook'.data = << >>
                 /\ ~hook'.loading
                 /\ hook'.error = "null"]_vars

\* useRepairs over a store that holds a repair: the store failed, the fetch
\* has settled, and the hook shows no data and no error
C22_Witness ==
    /\ hook.kind = "useRepairs"
    /\ getDocs("repairs") # << >>
    /\ hook.fetches # << >>
    /\ hook.fetches[1].state = "settled"
    /\ ~hook.fetches[1].storeOk
    /\ hook.data = << >>
    /\ ~hook.loading
    /\ hook.error = "null"

-----------------------------------------------------------------------------
(* seedDatabase: which repairs a run writes, and in which order it adds *)

\* the ids of an array
Ids(ids) == {ids[k] : k \in DOMAIN ids}

\* the place of a collection in the run: customers, technicians, products, repairs
SeedRank(coll) ==
    CASE coll = "customers" -> 1
      [] coll = "technicians" -> 2
      [] coll = "products" -> 3
      [] coll = "repairs" -> 4

SeedRunning == seed # SeedIdle

\* C23: in a run of seedDatabase, whichever addCustomer and addTechnician
\* calls fail, every repair document written has a customer_id that is an
\* identifier returned by a successful addCustomer call of the run (and that
\* identifier is a stored customer), no repair is written when no customer
\* or no technician was added, and the add calls are made in the order
\* customers, technicians, products, repairs.
C23_SeedRepairsReferToAddedCustomers ==
    SeedRunning =>
        /\ Ids(seed.customerIds) \subseteq DOMAIN db["customers"]
        /\ \A id \in DOMAIN db["repairs"] :
               \E customerId \in Ids(seed.customerIds) :
                   Prop(db["repairs"][id], "customer_id") = <<customerId>>
        /\ (seed.customerIds = << >> \/ seed.technicianIds = << >>)
               => db["repairs"] = Obj0 /\ "repairs" \notin Ids(seed.log)
        /\ \A j \in DOMAIN seed.log : \A k \in DOMAIN seed.log :
               j < k => SeedRank(seed.log[j]) <= SeedRank(seed.log[k])

\* a finished run in which an addCustomer call and two addTechnician calls
\* failed and a repair was written
C23_Witness ==
    /\ SeedRunning
    /\ seed.pc = "done"
    /\ Len(seed.customerIds) = 2
    /\ Len(seed.technicianIds) = 1
    /\ db["repairs"] # Obj0
    /\ Len(seed.log) > Len(sampleCustomers) + Len(sampleTechnicians) + Len(sampleProducts)

====
